---- MODULE Spec2Model ----
(***************************************************************************)
(* Model of slice_sql.py: primary-key based table slicing.                 *)
(*                                                                         *)
(* generate_slice_sql resolves the primary-key columns, samples boundary   *)
(* rows with a row-count query followed by a ROW_NUMBER query, and turns    *)
(* consecutive boundaries into AND-only WHERE predicates.                  *)
(*                                                                         *)
(* A predicate is a sequence of comparisons [col, op, lit] (the " AND "    *)
(* join of the source); a literal is the text fmt_literal renders, kept    *)
(* structured by its kind.  The database side (row order, ROW_NUMBER, the  *)
(* value a literal denotes, the truth of a WHERE clause) is modelled by    *)
(* the operators of the section "Database".                                *)
(***************************************************************************)
EXTENDS Integers, Sequences, FiniteSets, TLC

\* ---------------------------------------------------------------- bounds
\* integer keys stored in a table are 1..MaxVal
MaxVal == 3
\* datetime keys stored in a table are the clock ticks 0..MaxTick
MaxTick == 4
\* resolution of the modelled clock: sub-second ticks per second
TicksPerSec == 2
\* resolution of the modelled clock: seconds per day
SecsPerDay == 2
\* string keys have at most MaxStrLen characters
MaxStrLen == 1
\* a seeded table has at most MaxRows rows
MaxRows == 3
\* the desired slice count k is 1..MaxK
MaxK == 3

\* ------------------------------------------------- scenario constants
\* seed_oracle.py: T_SPLIT_TEST holds 3 days ...
ScenDays == 3
\* ... with ids 1..10 on each day
ScenIds == 10
\* verify_slices.py: default number of slices
ScenK == 4
\* seed_oracle.py: the ids 1..30 of T_SPLIT_SINGLE
ScenSingleIds == 30

\* ---------------------------------------------------------------- values
\* Python values a driver returns for a key column
IntV(n) == [ty |-> "int", n |-> n]
StrV(s) == [ty |-> "str", s |-> s]
DateTimeV(t) == [ty |-> "datetime", t |-> t]
DateV(d) == [ty |-> "date", d |-> d]
NoneV == [ty |-> "None"]

TicksPerDay == SecsPerDay * TicksPerSec
\* fields of a datetime.datetime given as a tick count
DayOf(t) == t \div TicksPerDay
SecOf(t) == (t \div TicksPerSec) % SecsPerDay
UsOf(t) == t % TicksPerSec

\* the characters of the modelled strings
Chars == {"a", "'"}

\* str(n) for a non-negative integer: its decimal digits
RECURSIVE IntToStr(_)
IntToStr(n) ==
    IF n < 10 THEN <<n>> ELSE Append(IntToStr(n \div 10), n % 10)

\* v.replace("'", "''")
RECURSIVE DoubleQuotes(_)
DoubleQuotes(s) ==
    IF s = <<>> THEN <<>>
    ELSE (IF Head(s) = "'" THEN <<"'", "'">> ELSE <<Head(s)>>)
         \o DoubleQuotes(Tail(s))

\* fmt_literal: the SQL literal of a key value
fmt_literal(v) ==
    CASE v.ty = "str" -> [kind |-> "quoted", text |-> DoubleQuotes(v.s)]
      [] v.ty = "datetime" ->
            IF SecOf(v.t) = 0 /\ UsOf(v.t) = 0
            THEN [kind |-> "DATE", day |-> DayOf(v.t)]
            ELSE [kind |-> "TIMESTAMP", day |-> DayOf(v.t), sec |-> SecOf(v.t)]
      [] v.ty = "date" -> [kind |-> "DATE", day |-> v.d]
      [] v.ty = "None" -> [kind |-> "NULL"]
      [] OTHER -> [kind |-> "plain", text |-> IntToStr(v.n)]

\* one comparison of a WHERE clause: f"{col} {op} {fmt_literal(v)}"
Cmp(col, op, v) == [col |-> col, op |-> op, lit |-> fmt_literal(v)]

\* ------------------------------------------------ single-column slicing
\* the dedup loop of make_single_pk_slices_from_bounds
RECURSIVE DedupAdjacent(_)
DedupAdjacent(bs) ==
    IF Len(bs) <= 1 THEN bs
    ELSE LET d == DedupAdjacent(SubSeq(bs, 1, Len(bs) - 1))
         IN  IF bs[Len(bs)] # d[Len(d)] THEN Append(d, bs[Len(bs)]) ELSE d

make_single_pk_slices_from_bounds(col, bs) ==
    LET d0 == DedupAdjacent(bs)
        dedup == IF Len(d0) = 1 THEN Append(d0, d0[1]) ELSE d0
    IN  [i \in 1..(Len(dedup) - 1) |->
            IF i = Len(dedup) - 1
            THEN <<Cmp(col, ">=", dedup[i]), Cmp(col, "<=", dedup[i + 1])>>
            ELSE <<Cmp(col, ">=", dedup[i]), Cmp(col, "<", dedup[i + 1])>>]

\* ------------------------------------------------- composite slicing
\* segments of cols >= bounds (lexicographic)
RECURSIVE _ge_segments(_, _)
_ge_segments(cols, bounds) ==
    IF Len(cols) = 1 THEN << <<Cmp(cols[1], ">=", bounds[1])>> >>
    ELSE LET head == cols[1]
             sub == _ge_segments(Tail(cols), Tail(bounds))
         IN  [i \in 1..Len(sub) |-> <<Cmp(head, "=", bounds[1])>> \o sub[i]]
             \o << <<Cmp(head, ">", bounds[1])>> >>

\* _le_segments whose free-tail segment reads head <= bound
RECURSIVE _le_segments_head_le(_, _, _)
_le_segments_head_le(cols, bounds, inclusive) ==
    IF Len(cols) = 1
    THEN << <<Cmp(cols[1], IF inclusive THEN "<=" ELSE "<", bounds[1])>> >>
    ELSE LET head == cols[1]
             sub == _le_segments_head_le(Tail(cols), Tail(bounds), inclusive)
         IN  << <<Cmp(head, "<=", bounds[1])>> >>
             \o [i \in 1..Len(sub) |-> <<Cmp(head, "=", bounds[1])>> \o sub[i]]

\* segments of cols <= bounds (lexicographic)
RECURSIVE _le_segments(_, _, _)
_le_segments(cols, bounds, inclusive) ==
    IF Len(cols) = 1
    THEN << <<Cmp(cols[1], IF inclusive THEN "<=" ELSE "<", bounds[1])>> >>
    ELSE LET head == cols[1]
             sub == _le_segments(Tail(cols), Tail(bounds), inclusive)
         IN  << <<Cmp(head, "<", bounds[1])>> >>
             \o [i \in 1..Len(sub) |-> <<Cmp(head, "=", bounds[1])>> \o sub[i]]

\* build_composite_slice_wheres without the middle band
RECURSIVE build_composite_no_middle(_, _, _, _)
build_composite_no_middle(cols, left, right, is_last) ==
    IF Len(cols) = 1
    THEN << <<Cmp(cols[1], ">=", left[1]),
              Cmp(cols[1], IF is_last THEN "<=" ELSE "<", right[1])>> >>
    ELSE IF left[1] = right[1]
    THEN LET tail_wheres ==
                 build_composite_no_middle(Tail(cols), Tail(left), Tail(right), is_last)
         IN  [i \in 1..Len(tail_wheres) |->
                 <<Cmp(cols[1], "=", left[1])>> \o tail_wheres[i]]
    ELSE LET ge == _ge_segments(Tail(cols), Tail(left))
             le == _le_segments(Tail(cols), Tail(right), is_last)
         IN  [i \in 1..Len(ge) |-> <<Cmp(cols[1], "=", left[1])>> \o ge[i]]
             \o [i \in 1..Len(le) |-> <<Cmp(cols[1], "=", right[1])>> \o le[i]]

\* build_composite_slice_wheres: AND-only predicates covering [left, right)
\* (or [left, right] when is_last)
RECURSIVE build_composite_slice_wheres(_, _, _, _)
build_composite_slice_wheres(cols, left, right, is_last) ==
    IF Len(cols) = 1
    THEN << <<Cmp(cols[1], ">=", left[1]),
              Cmp(cols[1], IF is_last THEN "<=" ELSE "<", right[1])>> >>
    ELSE IF left[1] = right[1]
    THEN LET tail_wheres ==
                 build_composite_slice_wheres(Tail(cols), Tail(left), Tail(right), is_last)
         IN  [i \in 1..Len(tail_wheres) |->
                 <<Cmp(cols[1], "=", left[1])>> \o tail_wheres[i]]
    ELSE LET ge == _ge_segments(Tail(cols), Tail(left))
             le == _le_segments(Tail(cols), Tail(right), is_last)
         IN  \* lower band, middle band, upper band
             [i \in 1..Len(ge) |-> <<Cmp(cols[1], "=", left[1])>> \o ge[i]]
             \o << <<Cmp(cols[1], ">", left[1]), Cmp(cols[1], "<", right[1])>> >>
             \o [i \in 1..Len(le) |-> <<Cmp(cols[1], "=", right[1])>> \o le[i]]

\* --------------------------------------------------------------- Database
\* the value the database reads from the decimal digits of a plain literal
RECURSIVE StrToInt(_)
StrToInt(ds) ==
    IF Len(ds) = 1 THEN ds[1]
    ELSE 10 * StrToInt(SubSeq(ds, 1, Len(ds) - 1)) + ds[Len(ds)]

\* the string a quoted literal denotes: '' stands for one quote
RECURSIVE UndoubleQuotes(_)
UndoubleQuotes(s) ==
    IF s = <<>> THEN <<>>
    ELSE IF Len(s) >= 2 /\ s[1] = "'" /\ s[2] = "'"
    THEN <<"'">> \o UndoubleQuotes(SubSeq(s, 3, Len(s)))
    ELSE <<Head(s)>> \o UndoubleQuotes(Tail(s))

\* the value the database compares a column with, given the literal's text
LitValue(lit) ==
    CASE lit.kind = "quoted" -> StrV(UndoubleQuotes(lit.text))
      [] lit.kind = "DATE" -> DateTimeV(lit.day * TicksPerDay)
      [] lit.kind = "TIMESTAMP" ->
            DateTimeV((lit.day * SecsPerDay + lit.sec) * TicksPerSec)
      [] lit.kind = "NULL" -> NoneV
      [] OTHER -> IntV(StrToInt(lit.text))

\* position of a date or datetime on the time line, in ticks
TimeOrd(v) == IF v.ty = "date" THEN v.d * TicksPerDay ELSE v.t

\* code point order of the modelled characters
CharCode(c) == IF c = "'" THEN 39 ELSE 97

RECURSIVE StrLt(_, _)
StrLt(a, b) ==
    IF b = <<>> THEN FALSE
    ELSE IF a = <<>> THEN TRUE
    ELSE IF Head(a) # Head(b) THEN CharCode(Head(a)) < CharCode(Head(b))
    ELSE StrLt(Tail(a), Tail(b))

\* SQL comparison of two values of one column type; NULL compares to nothing
ValLt(a, b) ==
    CASE a.ty = "None" \/ b.ty = "None" -> FALSE
      [] a.ty = "int" -> a.n < b.n
      [] a.ty = "str" -> StrLt(a.s, b.s)
      [] OTHER -> TimeOrd(a) < TimeOrd(b)

ValEq(a, b) ==
    CASE a.ty = "None" \/ b.ty = "None" -> FALSE
      [] a.ty = "int" -> a.n = b.n
      [] a.ty = "str" -> a.s = b.s
      [] OTHER -> TimeOrd(a) = TimeOrd(b)

\* truth of one comparison for a column value v
Holds(c, v) ==
    LET w == LitValue(c.lit)
    IN  CASE c.op = "=" -> ValEq(v, w)
          [] c.op = "<" -> ValLt(v, w)
          [] c.op = "<=" -> ValLt(v, w) \/ ValEq(v, w)
          [] c.op = ">" -> ValLt(w, v)
          [] OTHER -> ValLt(w, v) \/ ValEq(v, w)

ColIdx(cols, name) == CHOOSE i \in 1..Len(cols) : cols[i] = name

\* truth of an AND-only WHERE clause for the key tuple t of a row
Sat(pred, cols, t) ==
    \A i \in 1..Len(pred) : Holds(pred[i], t[ColIdx(cols, pred[i].col)])

\* ORDER BY over the key columns: lexicographic order of key tuples
RowLt(a, b) ==
    \E i \in 1..Len(a) :
        /\ \A j \in 1..(i - 1) : ValEq(a[j], b[j])
        /\ ValLt(a[i], b[i])

RowLe(a, b) == RowLt(a, b) \/ a = b

\* ROW_NUMBER() OVER (ORDER BY key columns) of a row of the table
RowNumber(rows, r) == 1 + Cardinality({o \in rows : RowLt(o, r)})

\* WHERE rn IN (rns) ORDER BY rn: the rows at the listed ranks, in rank order
RECURSIVE RowsAtRanks(_, _)
RowsAtRanks(rows, ranks) ==
    IF ranks = <<>> THEN <<>>
    ELSE LET hit == {r \in rows : RowNumber(rows, r) = Head(ranks)}
         IN  (IF hit = {} THEN <<>> ELSE <<CHOOSE r \in hit : TRUE>>)
             \o RowsAtRanks(rows, Tail(ranks))

\* ------------------------------------------------------- key domains
Strings(n) == UNION {[1..m -> Chars] : m \in 0..n}

\* the values a key column of a type holds in a seeded table
KeyVals(ty) ==
    CASE ty = "int" -> {IntV(n) : n \in 1..MaxVal}
      [] ty = "str" -> {StrV(s) : s \in Strings(MaxStrLen)}
      [] ty = "datetime" -> {DateTimeV(t) : t \in 0..MaxTick}
      [] OTHER -> {DateV(d) : d \in 0..DayOf(MaxTick)}

\* the values of the column type: a stored key is never its least or greatest
ColVals(ty) ==
    CASE ty = "int" -> {IntV(n) : n \in 0..(MaxVal + 1)}
      [] ty = "str" -> {StrV(s) : s \in Strings(MaxStrLen + 1)}
      [] ty = "datetime" -> {DateTimeV(t) : t \in 0..(MaxTick + 1)}
      [] OTHER -> {DateV(d) : d \in 0..(DayOf(MaxTick) + 1)}

\* all tuples whose i-th component is drawn from doms[i]
RECURSIVE TuplesOver(_)
TuplesOver(doms) ==
    IF doms = <<>> THEN {<<>>}
    ELSE {<<v>> \o t : v \in Head(doms), t \in TuplesOver(Tail(doms))}

ColNames(cat) == [i \in 1..Len(cat) |-> cat[i].name]

\* key tuples a table of this catalog may store, and all tuples of its key domain
KeyTuples(cat) == TuplesOver([i \in 1..Len(cat) |-> KeyVals(cat[i].ty)])
KeyDomain(cat) == TuplesOver([i \in 1..Len(cat) |-> ColVals(cat[i].ty)])

Col(name, ty) == [name |-> name, ty |-> ty]

\* primary keys of the modelled tables; <<>> is a table without primary key
Schemas ==
    { <<>>,
      <<Col("ID", "int")>>,
      <<Col("NAME", "str")>>,
      <<Col("TS", "datetime")>>,
      <<Col("D", "date")>>,
      <<Col("A", "int"), Col("B", "int")>>,
      <<Col("DT", "datetime"), Col("ID", "int")>> }

\* ------------------------------------------------------------ state
VARIABLES
    catalog,     \* the table's primary-key columns in the database catalog
    table,       \* the key tuples of the table's rows (unique by the key)
    drivers,     \* dialects whose driver module was imported (psycopg2, cx_Oracle)
    dbtype,      \* argument: dialect tag
    k,           \* argument: desired number of slices
    pc,          \* position of generate_slice_sql
    pk_cols,     \* local: resolved key columns
    total,       \* local of fetch_pk_boundaries: the COUNT result
    rns,         \* local of fetch_pk_boundaries: sorted target ranks
    boundaries,  \* local: boundary tuples returned by fetch_pk_boundaries
    bounds,      \* local: (lo, hi, is_last) triples of the composite branch
    sql_list,    \* local: the statements built so far / returned
    issued,      \* the queries sent over the connection, in order
    outcome,     \* "none", "returned", or the exception raised
    call,        \* arguments of a direct call of build_composite_slice_wheres
    wheres,      \* result of that call
    fmt_args,    \* the values of a pair of direct calls of fmt_literal
    literals     \* the literals those calls return

vars == <<catalog, table, drivers, dbtype, k, pc, pk_cols, total, rns,
          boundaries, bounds, sql_list, issued, outcome, call, wheres,
          fmt_args, literals>>

DbTypes == {"pg", "ora", "mysql"}
Supported == {"pg", "ora"}

NoCall == [cols |-> <<>>, left |-> <<>>, right |-> <<>>, is_last |-> FALSE]

\* f"SELECT * FROM {t_spec.qualified} WHERE {cond};"
Stmt(cond) == [select |-> "*", from |-> "T_SPLIT_TEST", where |-> cond]

\* ---------------------------------------------------- fetch_pk_boundaries
\* math.ceil(total / kk) for the modelled sizes
Ceil(n, d) == (n + d - 1) \div d

\* step = max(1, math.ceil(total / k))
Step(n, kk) == IF Ceil(n, kk) > 1 THEN Ceil(n, kk) ELSE 1

\* list.sort() of a set of integers
RECURSIVE SortAsc(_)
SortAsc(S) ==
    IF S = {} THEN <<>>
    ELSE LET m == CHOOSE x \in S : \A y \in S : x <= y
         IN  <<m>> \o SortAsc(S \ {m})

\* the rank list without the unconditional rank `total`
RankListStrideOnly(n, kk) ==
    SortAsc({1 + i * Step(n, kk) : i \in 0..(kk - 1)})

\* rns = list({1 + i * step for i in range(k)} | {total}); rns.sort()
RankList(n, kk) ==
    SortAsc({1 + i * Step(n, kk) : i \in 0..(kk - 1)} \cup {n})

\* -------------------------------------------------------- generate_slice_sql
\* concatenation of a sequence of sequences
RECURSIVE Flatten(_)
Flatten(ss) == IF ss = <<>> THEN <<>> ELSE Head(ss) \o Flatten(Tail(ss))

\* the (lo, hi, is_last) triples of consecutive boundaries
ConsecutivePairs(bs) ==
    [i \in 1..(Len(bs) - 1) |->
        [lo |-> bs[i], hi |-> bs[i + 1], is_last |-> (i = Len(bs) - 1)]]

\* the composite branch: every interval's predicates, in boundary order
CompositeStatements(cols, bnds) ==
    Flatten([i \in 1..Len(bnds) |->
        LET ws == build_composite_slice_wheres(cols, bnds[i].lo, bnds[i].hi,
                                               bnds[i].is_last)
        IN  [j \in 1..Len(ws) |-> Stmt(ws[j])]])

\* the single-column branch
SingleStatements(col, bs) ==
    LET conds == make_single_pk_slices_from_bounds(col, [i \in 1..Len(bs) |-> bs[i][1]])
    IN  [j \in 1..Len(conds) |-> Stmt(conds[j])]

Init ==
    /\ catalog \in Schemas
    /\ table = {}
    /\ drivers = {}
    /\ dbtype = "pg"
    /\ k = 1
    /\ pc = "seed"
    /\ pk_cols = <<>>
    /\ total = 0
    /\ rns = <<>>
    /\ boundaries = <<>>
    /\ bounds = <<>>
    /\ sql_list = <<>>
    /\ issued = <<>>
    /\ outcome = "none"
    /\ call = NoCall
    /\ wheres = <<>>
    /\ fmt_args = <<>>
    /\ literals = <<>>

\* a seed script inserts one more row before the run
SeedRow ==
    /\ pc = "seed"
    /\ catalog # <<>>
    /\ Cardinality(table) < MaxRows
    /\ \E row \in KeyTuples(catalog) \ table : table' = table \cup {row}
    /\ UNCHANGED <<catalog, drivers, dbtype, k, pc, pk_cols, total, rns,
                   boundaries, bounds, sql_list, issued, outcome, call, wheres,
                   fmt_args, literals>>

\* generate_slice_sql(conn, dbtype, table, k) is called
Invoke ==
    /\ pc = "seed"
    /\ \E d \in DbTypes, kk \in 1..MaxK, inst \in SUBSET Supported :
        /\ dbtype' = d
        /\ k' = kk
        /\ drivers' = inst
    /\ pc' = "resolve"
    /\ UNCHANGED <<catalog, table, pk_cols, total, rns, boundaries, bounds,
                   sql_list, issued, outcome, call, wheres,
                   fmt_args, literals>>

\* else: raise ValueError("dbtype must be 'pg' or 'ora'")
RaiseUnsupportedDbtype ==
    /\ pc = "resolve"
    /\ dbtype \notin Supported
    /\ pc' = "raised"
    /\ outcome' = "ValueError"
    /\ UNCHANGED <<catalog, table, drivers, dbtype, k, pk_cols, total, rns,
                   boundaries, bounds, sql_list, issued, call, wheres,
                   fmt_args, literals>>

\* raise RuntimeError("psycopg2 is not installed") / ("cx_Oracle is not installed")
RaiseDriverMissing ==
    /\ pc = "resolve"
    /\ dbtype \in Supported
    /\ dbtype \notin drivers
    /\ pc' = "raised"
    /\ outcome' = "RuntimeError"
    /\ UNCHANGED <<catalog, table, drivers, dbtype, k, pk_cols, total, rns,
                   boundaries, bounds, sql_list, issued, call, wheres,
                   fmt_args, literals>>

\* get_pk_columns_* finds no key: raise RuntimeError("Primary key not found")
RaisePkNotFound ==
    /\ pc = "resolve"
    /\ dbtype \in Supported
    /\ dbtype \in drivers
    /\ catalog = <<>>
    /\ issued' = Append(issued, "pk_catalog")
    /\ pk_cols' = <<>>
    /\ pc' = "raised"
    /\ outcome' = "RuntimeError"
    /\ UNCHANGED <<catalog, table, drivers, dbtype, k, total, rns,
                   boundaries, bounds, sql_list, call, wheres,
                   fmt_args, literals>>

\* ResolvePk going on to sample without the test of pk_cols
ResolvePkUnchecked ==
    /\ pc = "resolve"
    /\ dbtype \in Supported
    /\ dbtype \in drivers
    /\ issued' = Append(issued, "pk_catalog")
    /\ pk_cols' = ColNames(catalog)
    /\ pc' = "count"
    /\ UNCHANGED <<catalog, table, drivers, dbtype, k, total, rns,
                   boundaries, bounds, sql_list, outcome, call, wheres,
                   fmt_args, literals>>

\* get_pk_columns_* returns the key columns
ResolvePk ==
    /\ pc = "resolve"
    /\ dbtype \in Supported
    /\ dbtype \in drivers
    /\ catalog # <<>>
    /\ issued' = Append(issued, "pk_catalog")
    /\ pk_cols' = ColNames(catalog)
    /\ pc' = "count"
    /\ UNCHANGED <<catalog, table, drivers, dbtype, k, total, rns,
                   boundaries, bounds, sql_list, outcome, call, wheres,
                   fmt_args, literals>>

\* CountEmpty without the early return: the ranks are computed for 0 rows
CountEmptyNoReturn ==
    /\ pc = "count"
    /\ Cardinality(table) = 0
    /\ issued' = Append(issued, "count")
    /\ total' = 0
    /\ rns' = RankList(0, k)
    /\ pc' = "ranked"
    /\ UNCHANGED <<catalog, table, drivers, dbtype, k, pk_cols,
                   boundaries, bounds, sql_list, outcome, call, wheres,
                   fmt_args, literals>>

\* fetch_pk_boundaries: SELECT COUNT(..) reports 0 rows: return []
CountEmpty ==
    /\ pc = "count"
    /\ Cardinality(table) = 0
    /\ issued' = Append(issued, "count")
    /\ total' = 0
    /\ boundaries' = <<>>
    /\ pc' = "emit"
    /\ UNCHANGED <<catalog, table, drivers, dbtype, k, pk_cols, rns,
                   bounds, sql_list, outcome, call, wheres,
                   fmt_args, literals>>

\* fetch_pk_boundaries: SELECT COUNT(..), then the target ranks
CountRows ==
    /\ pc = "count"
    /\ Cardinality(table) # 0
    /\ issued' = Append(issued, "count")
    /\ total' = Cardinality(table)
    /\ rns' = RankList(Cardinality(table), k)
    /\ pc' = "ranked"
    /\ UNCHANGED <<catalog, table, drivers, dbtype, k, pk_cols,
                   boundaries, bounds, sql_list, outcome, call, wheres,
                   fmt_args, literals>>

\* fetch_pk_boundaries: the ROW_NUMBER query; out = [tuple(r) for r in rows]
RankedQuery ==
    /\ pc = "ranked"
    /\ issued' = Append(issued, "ranked")
    /\ boundaries' = RowsAtRanks(table, rns)
    /\ pc' = "emit"
    /\ UNCHANGED <<catalog, table, drivers, dbtype, k, pk_cols, total, rns,
                   bounds, sql_list, outcome, call, wheres,
                   fmt_args, literals>>

\* if not boundaries: return []
ReturnEmpty ==
    /\ pc = "emit"
    /\ boundaries = <<>>
    /\ sql_list' = <<>>
    /\ pc' = "done"
    /\ outcome' = "returned"
    /\ UNCHANGED <<catalog, table, drivers, dbtype, k, pk_cols, total, rns,
                   boundaries, bounds, issued, call, wheres,
                   fmt_args, literals>>

\* if len(pk_cols) == 1: make_single_pk_slices_from_bounds
EmitSingle ==
    /\ pc = "emit"
    /\ boundaries # <<>>
    /\ Len(pk_cols) = 1
    /\ sql_list' = SingleStatements(pk_cols[1], boundaries)
    /\ pc' = "done"
    /\ outcome' = "returned"
    /\ UNCHANGED <<catalog, table, drivers, dbtype, k, pk_cols, total, rns,
                   boundaries, bounds, issued, call, wheres,
                   fmt_args, literals>>

\* else: build_composite_slice_wheres for each consecutive pair
EmitComposite ==
    /\ pc = "emit"
    /\ boundaries # <<>>
    /\ Len(pk_cols) # 1
    /\ bounds' = ConsecutivePairs(boundaries)
    /\ sql_list' = CompositeStatements(pk_cols, ConsecutivePairs(boundaries))
    /\ pc' = "done"
    /\ outcome' = "returned"
    /\ UNCHANGED <<catalog, table, drivers, dbtype, k, pk_cols, total, rns,
                   boundaries, issued, call, wheres,
                   fmt_args, literals>>

Next ==
    \/ SeedRow
    \/ Invoke
    \/ RaiseUnsupportedDbtype
    \/ RaiseDriverMissing
    \/ RaisePkNotFound
    \/ ResolvePk
    \/ CountEmpty
    \/ CountRows
    \/ RankedQuery
    \/ ReturnEmpty
    \/ EmitSingle
    \/ EmitComposite

\* one run of generate_slice_sql on a seeded table that nothing else changes
Spec == Init /\ [][Next]_vars

\* ------------------------------------------ Scenario B (T_SPLIT_TEST)
\* seed_oracle.py: nd days with the ids 1..ni on each; Oracle DATE columns
\* come back as datetime.datetime values at midnight
DaysByIds(nd, ni) ==
    {<<DateTimeV(d * TicksPerDay), IntV(i)>> : d \in 1..nd, i \in 1..ni}

ScenarioBTable == DaysByIds(ScenDays, ScenIds)

InitB ==
    /\ catalog = <<Col("DT", "datetime"), Col("ID", "int")>>
    /\ \E nd \in 1..ScenDays, ni \in 1..ScenIds : table = DaysByIds(nd, ni)
    /\ drivers = Supported
    /\ dbtype \in Supported
    /\ k \in 1..ScenK
    /\ pc = "resolve"
    /\ pk_cols = <<>>
    /\ total = 0
    /\ rns = <<>>
    /\ boundaries = <<>>
    /\ bounds = <<>>
    /\ sql_list = <<>>
    /\ issued = <<>>
    /\ outcome = "none"
    /\ call = NoCall
    /\ wheres = <<>>
    /\ fmt_args = <<>>
    /\ literals = <<>>

NextB ==
    \/ ResolvePk
    \/ CountRows
    \/ RankedQuery
    \/ EmitComposite

\* runs of generate_slice_sql on the tables the seed script builds
SpecB == InitB /\ [][NextB]_vars

\* --------------------------- direct calls of build_composite_slice_wheres
WSchemas ==
    { <<Col("A", "int")>>,
      <<Col("A", "int"), Col("B", "int")>>,
      <<Col("A", "int"), Col("B", "int"), Col("C", "int")>>,
      <<Col("DT", "datetime"), Col("ID", "int")>> }

InitW ==
    /\ catalog \in WSchemas
    /\ \E lo \in KeyTuples(catalog), hi \in KeyTuples(catalog), last \in BOOLEAN :
        /\ RowLt(lo, hi)
        /\ call = [cols |-> ColNames(catalog), left |-> lo, right |-> hi,
                   is_last |-> last]
    /\ table = {}
    /\ drivers = {}
    /\ dbtype = "pg"
    /\ k = 1
    /\ pc = "call"
    /\ pk_cols = ColNames(catalog)
    /\ total = 0
    /\ rns = <<>>
    /\ boundaries = <<>>
    /\ bounds = <<>>
    /\ sql_list = <<>>
    /\ issued = <<>>
    /\ outcome = "none"
    /\ wheres = <<>>
    /\ fmt_args = <<>>
    /\ literals = <<>>

\* wheres = build_composite_slice_wheres(cols, left, right, is_last)
CallBuildWheres ==
    /\ pc = "call"
    /\ wheres' = build_composite_slice_wheres(call.cols, call.left, call.right,
                                              call.is_last)
    /\ pc' = "called"
    /\ UNCHANGED <<catalog, table, drivers, dbtype, k, pk_cols, total, rns,
                   boundaries, bounds, sql_list, issued, outcome, call,
                   fmt_args, literals>>

NextW == CallBuildWheres

\* build_composite_slice_wheres applied to every ordered pair of key tuples
SpecW == InitW /\ [][NextW]_vars

\* ------------------------------------------ T_SPLIT_SINGLE
\* seed_oracle.py: the ids 1..n in the single key column ID
SingleIds(n) == {<<IntV(i)>> : i \in 1..n}

InitS ==
    /\ catalog = <<Col("ID", "int")>>
    /\ \E n \in 1..ScenSingleIds : table = SingleIds(n)
    /\ drivers = Supported
    /\ dbtype \in Supported
    /\ k \in 1..ScenK
    /\ pc = "resolve"
    /\ pk_cols = <<>>
    /\ total = 0
    /\ rns = <<>>
    /\ boundaries = <<>>
    /\ bounds = <<>>
    /\ sql_list = <<>>
    /\ issued = <<>>
    /\ outcome = "none"
    /\ call = NoCall
    /\ wheres = <<>>
    /\ fmt_args = <<>>
    /\ literals = <<>>

NextS ==
    \/ ResolvePk
    \/ CountRows
    \/ RankedQuery
    \/ EmitSingle

\* runs of generate_slice_sql on the single-column tables of the seed script
SpecS == InitS /\ [][NextS]_vars

\* ------------------------------------------ direct calls of fmt_literal
\* the value types fmt_literal renders for a key column
FmtTypes == {"int", "str", "datetime", "date"}

InitF ==
    /\ catalog \in {<<Col("V", ty)>> : ty \in FmtTypes}
    /\ \E v \in ColVals(catalog[1].ty), w \in ColVals(catalog[1].ty) :
        fmt_args = <<v, w>>
    /\ table = {}
    /\ drivers = {}
    /\ dbtype = "pg"
    /\ k = 1
    /\ pc = "fmt"
    /\ pk_cols = ColNames(catalog)
    /\ total = 0
    /\ rns = <<>>
    /\ boundaries = <<>>
    /\ bounds = <<>>
    /\ sql_list = <<>>
    /\ issued = <<>>
    /\ outcome = "none"
    /\ call = NoCall
    /\ wheres = <<>>
    /\ literals = <<>>

\* literals = [fmt_literal(v) for v in fmt_args]
CallFmtLiteral ==
    /\ pc = "fmt"
    /\ literals' = [i \in 1..Len(fmt_args) |-> fmt_literal(fmt_args[i])]
    /\ pc' = "formatted"
    /\ UNCHANGED <<catalog, table, drivers, dbtype, k, pk_cols, total, rns,
                   boundaries, bounds, sql_list, issued, outcome, call, wheres,
                   fmt_args>>

NextF == CallFmtLiteral

\* fmt_literal applied to every pair of values of one column type
SpecF == InitF /\ [][NextF]_vars

\* ------------------------------------ a concurrently mutated table
\* another session inserts a row after the count query, before the ranked one
InsertRow ==
    /\ pc = "ranked"
    /\ Cardinality(table) < MaxRows
    /\ \E row \in KeyTuples(catalog) \ table : table' = table \cup {row}
    /\ UNCHANGED <<catalog, drivers, dbtype, k, pc, pk_cols, total, rns,
                   boundaries, bounds, sql_list, issued, outcome, call, wheres,
                   fmt_args, literals>>

\* another session deletes a row after the count query, before the ranked one
DeleteRow ==
    /\ pc = "ranked"
    /\ \E row \in table : table' = table \ {row}
    /\ UNCHANGED <<catalog, drivers, dbtype, k, pc, pk_cols, total, rns,
                   boundaries, bounds, sql_list, issued, outcome, call, wheres,
                   fmt_args, literals>>

NextM ==
    \/ Next
    \/ InsertRow
    \/ DeleteRow

\* one run of generate_slice_sql while other sessions change the table
\* between its two sampling queries
SpecM == Init /\ [][NextM]_vars

\* =============================================================== claims
Range(q) == {q[i] : i \in 1..Len(q)}

\* the WHERE clauses of the returned statements
Wheres == [i \in 1..Len(sql_list) |-> sql_list[i].where]

\* the statements that select the key tuple t
Selecting(t) == {i \in 1..Len(sql_list) : Sat(sql_list[i].where, pk_cols, t)}

\* the predicates of a direct call that the key tuple t satisfies
Covering(t) == {i \in 1..Len(wheres) : Sat(wheres[i], call.cols, t)}

\* t lies in the interval of the direct call
InInterval(t) ==
    /\ RowLe(call.left, t)
    /\ IF call.is_last THEN RowLe(t, call.right) ELSE RowLt(t, call.right)

\* no key column is a datetime: every literal denotes the value it renders
ExactTypes == \A i \in 1..Len(catalog) : catalog[i].ty # "datetime"

MinRow(rows) == CHOOSE r \in rows : \A o \in rows : RowLe(r, o)
MaxRow(rows) == CHOOSE r \in rows : \A o \in rows : RowLe(o, r)

\* C1: after a run on a table with N >= 1 rows, every row of the table
\* satisfies at least one returned predicate (stated for the tables without
\* datetime key column, for any key arity).
C1_Coverage ==
    (pc = "done" /\ table # {} /\ ExactTypes)
    => \A row \in table : Selecting(row) # {}

\* C1 for every column type, datetime included
C1_CoverageAllTypes ==
    (pc = "done" /\ table # {}) => \A row \in table : Selecting(row) # {}

\* C1, restricted: coverage holds when the table has at least 2 rows or a
\* single-column key, and no key column is a datetime.
C1_CoverageExactTypes ==
    (pc = "done" /\ table # {} /\ ExactTypes
        /\ (Cardinality(table) >= 2 \/ Len(pk_cols) = 1))
    => \A row \in table : Selecting(row) # {}

\* C2: no key tuple of the key domain, stored or not, satisfies two different
\* predicates of one run.
C2_Disjoint ==
    pc = "done" => \A t \in KeyDomain(catalog) : Cardinality(Selecting(t)) <= 1

\* C2, restricted: disjointness holds when no key column is a datetime.
C2_DisjointExactTypes ==
    (pc = "done" /\ ExactTypes)
    => \A t \in KeyDomain(catalog) : Cardinality(Selecting(t)) <= 1

\* C3: the predicates build_composite_slice_wheres returns for low < high are
\* satisfied by exactly the tuples of [low, high) (of [low, high] when is_last),
\* and no tuple satisfies two of them.
C3_IntervalExact ==
    pc = "called" =>
        \A t \in KeyDomain(catalog) :
            /\ (Covering(t) # {}) <=> InInterval(t)
            /\ Cardinality(Covering(t)) <= 1

\* C3, restricted: exactness holds when no key column is a datetime.
C3_IntervalExactExactTypes ==
    (pc = "called" /\ ExactTypes) =>
        \A t \in KeyDomain(catalog) :
            /\ (Covering(t) # {}) <=> InInterval(t)
            /\ Cardinality(Covering(t)) <= 1

\* C4: a run on a one-row table returns exactly one statement and the row
\* satisfies its predicate, for single-column and composite keys alike
\* (stated for the tables without datetime key column).
C4_OneRowOneSlice ==
    (pc = "done" /\ Cardinality(table) = 1 /\ ExactTypes) =>
        /\ Len(sql_list) = 1
        /\ \A row \in table : Sat(sql_list[1].where, pk_cols, row)

\* C4, restricted: the one-row table of a single-column key without datetime
\* yields one statement that selects the row.
C4_OneRowSingleColumn ==
    (pc = "done" /\ Cardinality(table) = 1 /\ Len(pk_cols) = 1 /\ ExactTypes) =>
        /\ Len(sql_list) = 1
        /\ \A row \in table : Sat(sql_list[1].where, pk_cols, row)

\* the predicates emitted for the i-th interval of the run
IntervalPreds(i) ==
    IF Len(pk_cols) = 1 THEN <<sql_list[i].where>>
    ELSE build_composite_slice_wheres(pk_cols, bounds[i].lo, bounds[i].hi,
                                      bounds[i].is_last)

SatCount(preds, t) ==
    Cardinality({j \in 1..Len(preds) : Sat(preds[j], pk_cols, t)})

\* C5: with boundaries b_0 < ... < b_m, m >= 1: the upper boundary of every
\* non-final interval satisfies no predicate of that interval and exactly one
\* of the next, the maximum key b_m satisfies the last emitted predicate, and
\* is_last is true for the final pair only.
C5_OnlyLastClosed ==
    (pc = "done" /\ Len(boundaries) >= 2) =>
        LET m == Len(boundaries) - 1
        IN  /\ \A i \in 1..(m - 1) :
                /\ SatCount(IntervalPreds(i), boundaries[i + 1]) = 0
                /\ SatCount(IntervalPreds(i + 1), boundaries[i + 1]) = 1
            /\ Sat(sql_list[Len(sql_list)].where, pk_cols, boundaries[m + 1])
            /\ Len(pk_cols) > 1 =>
                \A i \in 1..Len(bounds) : bounds[i].is_last <=> (i = Len(bounds))

\* C5, restricted: the same holds when no key column is a datetime.
C5_OnlyLastClosedExactTypes ==
    (pc = "done" /\ Len(boundaries) >= 2 /\ ExactTypes) =>
        LET m == Len(boundaries) - 1
        IN  /\ \A i \in 1..(m - 1) :
                /\ SatCount(IntervalPreds(i), boundaries[i + 1]) = 0
                /\ SatCount(IntervalPreds(i + 1), boundaries[i + 1]) = 1
            /\ Sat(sql_list[Len(sql_list)].where, pk_cols, boundaries[m + 1])
            /\ Len(pk_cols) > 1 =>
                \A i \in 1..Len(bounds) : bounds[i].is_last <=> (i = Len(bounds))

\* C6: for N >= 1 rows and K >= 1 the rank list is strictly ascending, has at
\* most K+1 elements and contains rank 1 and rank N; the boundary list has at
\* most K+1 tuples, starts with the minimum key and ends with the maximum key.
C6_RankSampling ==
    /\ (pc \in {"ranked", "emit", "done"} /\ total >= 1) =>
        /\ \A i \in 1..(Len(rns) - 1) : rns[i] < rns[i + 1]
        /\ Len(rns) <= k + 1
        /\ 1 \in Range(rns)
        /\ total \in Range(rns)
    /\ (pc \in {"emit", "done"} /\ total >= 1) =>
        /\ Len(boundaries) >= 1
        /\ Len(boundaries) <= k + 1
        /\ boundaries[1] = MinRow(table)
        /\ boundaries[Len(boundaries)] = MaxRow(table)

\* a finished run in which rank N = 3 is no stride rank (K = 1, step = 3)
C6_Witness ==
    /\ pc = "done"
    /\ total = 3
    /\ k = 1
    /\ rns = <<1, 3>>
    /\ Len(boundaries) = 2

\* C7: with an unsupported dialect tag or an empty primary-key column list the
\* run raises; the count query and the ranked query are never issued and no
\* statement is returned.
C7_FatalBeforeSampling ==
    (pc # "seed" /\ (dbtype \notin Supported \/ catalog = <<>>)) =>
        /\ pc \in {"resolve", "raised"}
        /\ pc = "raised" => outcome \in {"ValueError", "RuntimeError"}
        /\ pc = "resolve" => outcome = "none"
        /\ "count" \notin Range(issued)
        /\ "ranked" \notin Range(issued)
        /\ sql_list = <<>>

\* the primary key was looked up, not found, and the run raised
C7_Witness ==
    /\ pc = "raised"
    /\ catalog = <<>>
    /\ dbtype \in Supported
    /\ outcome = "RuntimeError"
    /\ issued = <<"pk_catalog">>

\* C8: when the count query reports 0 rows the run returns an empty statement
\* list without raising and the ranked query is not issued.
C8_EmptyTable ==
    ("count" \in Range(issued) /\ total = 0) =>
        /\ pc \in {"emit", "done"}
        /\ issued = <<"pk_catalog", "count">>
        /\ sql_list = <<>>
        /\ outcome = IF pc = "done" THEN "returned" ELSE "none"

\* an empty table with a composite key was sliced
C8_Witness ==
    /\ pc = "done"
    /\ table = {}
    /\ Len(pk_cols) = 2
    /\ outcome = "returned"
    /\ issued = <<"pk_catalog", "count">>

DateLit(d) == [kind |-> "DATE", day |-> d]
NumLit(ds) == [kind |-> "plain", text |-> ds]
C(col, op, lit) == [col |-> col, op |-> op, lit |-> lit]

\* the 8 predicates of explain_plan.py, d1 < d2 < d3 being the days 1, 2, 3
ExpectedB ==
    << <<C("DT", "=", DateLit(1)), C("ID", ">=", NumLit(<<1>>)), C("ID", "<", NumLit(<<9>>))>>,
       <<C("DT", "=", DateLit(1)), C("ID", ">=", NumLit(<<9>>))>>,
       <<C("DT", ">", DateLit(1)), C("DT", "<", DateLit(2))>>,
       <<C("DT", "=", DateLit(2)), C("ID", "<", NumLit(<<7>>))>>,
       <<C("DT", "=", DateLit(2)), C("ID", ">=", NumLit(<<7>>))>>,
       <<C("DT", ">", DateLit(2)), C("DT", "<", DateLit(3))>>,
       <<C("DT", "=", DateLit(3)), C("ID", "<", NumLit(<<5>>))>>,
       <<C("DT", "=", DateLit(3)), C("ID", ">=", NumLit(<<5>>)),
         C("ID", "<=", NumLit(<<1, 0>>))>> >>

\* C9: on 3 dates x ids 1..10 with K = 4 the run emits exactly the 8
\* predicates of Scenario B, in order.
C9_ScenarioB ==
    (pc = "done" /\ table = ScenarioBTable /\ k = ScenK) => Wheres = ExpectedB

\* the run on the Scenario B table with K = 4 has returned
C9_Witness ==
    /\ pc = "done"
    /\ table = ScenarioBTable
    /\ k = ScenK
    /\ Len(sql_list) = 8

\* a direct call on a composite integer key
IntComposite ==
    /\ pc = "called"
    /\ Len(catalog) >= 2
    /\ \A i \in 1..Len(catalog) : catalog[i].ty = "int"

\* predicate i is needed: some tuple of the interval satisfies it and no other
Needed(i) ==
    \E t \in KeyDomain(catalog) : InInterval(t) /\ Covering(t) = {i}

EmptyMiddle(p) ==
    /\ Len(p) >= 2
    /\ p[Len(p) - 1].op = ">"
    /\ p[Len(p)].op = "<"
    /\ p[Len(p) - 1].col = p[Len(p)].col
    /\ LitValue(p[Len(p)].lit).n = LitValue(p[Len(p) - 1].lit).n + 1

ValidRanges ==
    \A t \in KeyDomain(catalog) :
        /\ Cardinality(Selecting(t)) <= 1
        /\ (Selecting(t) # {}) <=>
               (RowLe(boundaries[1], t) /\ RowLe(t, boundaries[Len(boundaries)]))

\* the table changed between the count query and the ranked query
Mutated == total # Cardinality(table)

\* C11: when rows are inserted or deleted between the count query and the
\* ranked query and the ranked query returns at least 2 rows, the emitted
\* predicates are pairwise disjoint and their union is exactly the closed key
\* range from the first to the last returned boundary.
C11_StaleBoundaries ==
    (pc = "done" /\ Mutated /\ Len(boundaries) >= 2) => ValidRanges

\* C11, restricted: the same holds, whatever happened to the table, when no
\* key column is a datetime.
C11_StaleBoundariesExactTypes ==
    (pc = "done" /\ Len(boundaries) >= 2 /\ ExactTypes) => ValidRanges

\* a run on a composite key without datetime column returned slices although
\* the table lost or gained rows between the two queries
C11_ExactTypesCase ==
    /\ pc = "done"
    /\ Len(boundaries) >= 2
    /\ ExactTypes
    /\ Mutated
    /\ Len(pk_cols) = 2

\* the boundary list the run slices: the single-column branch removes adjacent
\* duplicates and doubles a lone boundary, the composite branch takes the
\* sampled rows as they are
RunBoundaries ==
    IF Len(pk_cols) = 1
    THEN LET d0 == DedupAdjacent(boundaries)
         IN  IF Len(d0) = 1 THEN Append(d0, d0[1]) ELSE d0
    ELSE boundaries

\* the intervals of the run: consecutive boundaries, the last one closed
RunIntervals == ConsecutivePairs(RunBoundaries)

\* the rows of the table whose key lies in the interval iv
RowsIn(iv) ==
    {row \in table :
        /\ RowLe(iv.lo, row)
        /\ IF iv.is_last THEN RowLe(row, iv.hi) ELSE RowLt(row, iv.hi)}

\* the intervals are balanced for the stride step
Balanced(step) ==
    LET m == Len(RunIntervals)
    IN  /\ m <= k
        /\ \A i \in 1..(m - 1) : Cardinality(RowsIn(RunIntervals[i])) = step
        /\ m >= 1
        /\ Cardinality(RowsIn(RunIntervals[m])) \in 1..(step + 1)

\* max(1, ceil(N / K)), written out with integer division
Stride(n, kk) ==
    LET q == IF n % kk = 0 THEN n \div kk ELSE (n \div kk) + 1
    IN  IF q >= 1 THEN q ELSE 1

\* C12: after a run on an unchanged table of N >= 1 rows with K >= 1 and
\* step = max(1, ceil(N / K)), there are at most K intervals, every non-final
\* interval contains exactly step rows of the table, and there is a final
\* interval, which contains between 1 and step + 1 rows.
C12_SliceBalance ==
    (pc = "done" /\ table # {}) => Balanced(Stride(Cardinality(table), k))

\* C12, restricted: the balance holds when the table has at least 2 rows or
\* a single-column key.
C12_SliceBalanceSomeInterval ==
    (pc = "done" /\ table # {} /\ (Cardinality(table) >= 2 \/ Len(pk_cols) = 1))
    => Balanced(Stride(Cardinality(table), k))

\* a run whose stride does not divide N: 3 non-final intervals of 8 rows
C12_UnevenCase ==
    /\ pc = "done" /\ Cardinality(table) = 30 /\ k = 4
    /\ Len(RunIntervals) = 4
    /\ Cardinality(RowsIn(RunIntervals[4])) = 6

\* the literals lv, lw rendered for the values v, w of one type are faithful:
\* distinct values get distinct literals, the literals are ordered as the
\* values, lv denotes v, and the larger value satisfies the closing '<='
\* of the single-column interval built from the two
Faithful(v, w, lv, lw) ==
    LET hi == IF ValLt(v, w) THEN w ELSE v
        lo == IF ValLt(v, w) THEN v ELSE w
        conds == make_single_pk_slices_from_bounds(pk_cols[1], <<lo, hi>>)
    IN  /\ v # w => lv # lw
        /\ ValLt(v, w) => ValLt(LitValue(lv), LitValue(lw))
        /\ ValEq(LitValue(lv), v)
        /\ Sat(conds[Len(conds)], pk_cols, <<hi>>)

\* the value carries no sub-second part
WholeSeconds(v) == v.ty # "datetime" \/ UsOf(v.t) = 0

\* C13: fmt_literal is injective and order-preserving within one value type
\* (integers, strings, dates, timestamps, sub-second differences included):
\* distinct values never render to the same literal, a literal denotes exactly
\* the value it renders, and the larger of two keys satisfies the final '<='
\* comparison against its own literal.
C13_LiteralFidelity ==
    pc = "formatted" =>
        Faithful(fmt_args[1], fmt_args[2], literals[1], literals[2])

\* C13, restricted: the same holds for integers, strings, dates and the
\* timestamps that fall on whole seconds.
C13_LiteralFidelityWholeSeconds ==
    (pc = "formatted" /\ WholeSeconds(fmt_args[1]) /\ WholeSeconds(fmt_args[2]))
    => Faithful(fmt_args[1], fmt_args[2], literals[1], literals[2])

\* two whole-second timestamps of one day, rendered DATE and TIMESTAMP
C13_WholeSecondsCase ==
    /\ pc = "formatted"
    /\ fmt_args[1].ty = "datetime" /\ WholeSeconds(fmt_args[1])
    /\ WholeSeconds(fmt_args[2])
    /\ literals[1].kind = "DATE" /\ literals[2].kind = "TIMESTAMP"
    /\ literals[1].day = literals[2].day

====
